---- MODULE Spec2Model ----
(***************************************************************************)
(* Model of app/chain.py of sql-research-assistant: the two-stage research *)
(* pipeline                                                                *)
(*     chain_notypes = RunnablePassthrough().assign(                       *)
(*                         research_summary = search_chain) | writer_chain *)
(*     chain         = chain_notypes.with_types(input_type = InputType)    *)
(* A context is a function from keys to texts (a Python dict); a text is a *)
(* sequence of tokens, << >> being the empty string.  The two stages       *)
(* (app.search.web, app.writer) are not part of chain.py; they are modelled*)
(* from their contracts in the specification, split at their outbound      *)
(* calls so that invocations interleave.                                   *)
(***************************************************************************)
EXTENDS Naturals, Sequences, FiniteSets

\* Largest number of search sub-queries the search stage forms for a question.
MaxSubQueries == 2

\* The invocations of the shared module-level chain that run concurrently.
Invocations == {"A", "B"}

EmptyText == << >>

\* The empty dict.
EmptyCtx == << >>

\* chain.py:25-27, the input of the __main__ block.
input_data == [question |-> <<"Who is older? Point guards or Centers?">>]

\* Another question a caller may ask.
other_question == <<"How tall are forwards?">>

\* A research_summary a caller may already have put in its input.
CallerSummary == <<"caller", "summary">>

\* Another field a caller may have put in its input.
CallerExtra == <<"caller", "extra">>

\* The dicts callers invoke the chain with: without a question, with the
\* empty question, with a question only, and with a question next to a
\* research_summary key or an unrelated key.
Inputs ==
    { EmptyCtx,
      [question |-> EmptyText],
      input_data,
      [question |-> other_question],
      [question |-> input_data.question, research_summary |-> CallerSummary],
      [question |-> input_data.question, extra |-> CallerExtra] }

VARIABLES
    pc,          \* position of each invocation
    input,       \* the dict the caller invoked the chain with
    sinput,      \* the dict handed to the search stage
    nq,          \* search stage: number of sub-queries formed
    k,           \* search stage: sub-query whose fetch is outstanding
    hits,        \* search stage: sub-queries whose fetch succeeded
    allFailed,   \* search stage: every fetch of the invocation failed
    searchOut,   \* values the search stage returned, in order
    ctx,         \* output of the assign step
    winput,      \* the dict handed to the writer stage
    writerOut,   \* values the writer stage returned, in order
    result,      \* values invoke() returned to the caller, in order
    raised,      \* exceptions invoke() delivered to the caller, in order
    searchCalls, \* number of times the search stage was invoked
    writerCalls  \* number of times the writer stage was invoked

vars == <<pc, input, sinput, nq, k, hits, allFailed, searchOut, ctx,
          winput, writerOut, result, raised, searchCalls, writerCalls>>

\* chain.py:18-19, the declared input schema: a required string `question`.
InputType(inp) == "question" \in DOMAIN inp

\* chain.py:22, with_types binds InputType as the chain's input schema only;
\* invoke() of the bound chain does not consult it, every dict is accepted.
chain_accepts(inp) == TRUE

SearchInputQuestionOnly(inp) ==
    [x \in DOMAIN inp \cap {"question"} |-> inp[x]]

\* chain.py:14, what RunnableAssign hands the mapped runnable (search_chain):
\* the whole input dict.
SearchInput(inp) == inp

AssignKeepCaller(inp, out) ==
    [x \in DOMAIN inp \cup {"research_summary"} |->
        IF x \in DOMAIN inp THEN inp[x] ELSE out]

AssignShared(inp, out) ==
    [x \in DOMAIN inp \cup {"research_summary"} |->
        IF x = "research_summary"
        THEN (IF searchOut["A"] # << >> THEN searchOut["A"][1] ELSE out)
        ELSE inp[x]]

AssignDropInput(inp, out) == [x \in {"research_summary"} |-> out]

\* chain.py:14, RunnablePassthrough().assign(research_summary = ...):
\* {**input, "research_summary": out}; the mapper's value wins on a key clash.
Assign(inp, out) ==
    [x \in DOMAIN inp \cup {"research_summary"} |->
        IF x = "research_summary" THEN out ELSE inp[x]]

\* chain.py:14, `| writer_chain`: the assign step's output is the writer's input.
WriterInput(c) == c

ChainResultDropped(text) == EmptyText

\* chain.py:13-15, a RunnableSequence returns its last step's output as is.
ChainResult(text) == text


\* chain.py:13-15, the sequence runs the writer after the assign step returned.
OnSearchReturn == "RESEARCHED"

OnSearchRaiseSwallow == "RESEARCHED"

OnSearchRaiseRetry == "START"

\* chain.py:13-15, an exception of the assign step leaves the sequence: no
\* later step runs, the exception reaches the caller of invoke().
OnSearchRaise == "ERROR"

\* chain.py:13-15, the writer is the last step: its return ends the invocation.
OnWriterReturn == "DONE"

\* chain.py:13-15, an exception of the writer reaches the caller of invoke().
OnWriterRaise == "ERROR"

(***************************************************************************)
(* The stages, from their contracts (specification 4.1, 4.2, 5, 7).        *)
(***************************************************************************)

\* 4.1 summarize_research(question): the stage reads the question of the dict
\* it is handed; without one it cannot run.
SearchRaisesOnEntry(sin) == "question" \notin DOMAIN sin

\* 4.1 the empty question does not fail the stage: it yields the empty
\* ("no results") summary.
SearchYieldsNoResults(sin) ==
    ~SearchRaisesOnEntry(sin) /\ sin.question = EmptyText

\* 4.1 a non-empty question is turned into search queries.
SearchFormsQueries(sin) ==
    ~SearchRaisesOnEntry(sin) /\ sin.question # EmptyText

\* 4.1 the condensed summary of the fetches that succeeded for a question;
\* no successful fetch yields the empty summary.
Summary(q, h) ==
    IF h = {} THEN EmptyText
    ELSE q \o [n \in 1..MaxSubQueries |-> IF n \in h THEN "hit" ELSE "miss"]

\* 4.2 write_answer(question, research_summary): both fields must be present.
WriterRaisesOnEntry(c) == ~({"question", "research_summary"} \subseteq DOMAIN c)

\* 4.2/8 the texts the writer stage may return: non-empty, grounded in the
\* summary or, degrading gracefully, stating uncertainty; no prompt, hence no
\* text, can be built from a dict lacking a field.
WriterTexts(c) ==
    IF WriterRaisesOnEntry(c) THEN {}
    ELSE { <<"answer">> \o c.question \o c.research_summary,
           <<"uncertain">> \o c.question }

searchVars == <<nq, k, hits>>

writerVars == <<winput, writerOut, result, writerCalls>>

Init ==
    /\ pc = [i \in Invocations |-> "IDLE"]
    /\ input = [i \in Invocations |-> EmptyCtx]
    /\ sinput = [i \in Invocations |-> EmptyCtx]
    /\ nq = [i \in Invocations |-> 0]
    /\ k = [i \in Invocations |-> 0]
    /\ hits = [i \in Invocations |-> {}]
    /\ allFailed = [i \in Invocations |-> FALSE]
    /\ searchOut = [i \in Invocations |-> << >>]
    /\ ctx = [i \in Invocations |-> EmptyCtx]
    /\ winput = [i \in Invocations |-> EmptyCtx]
    /\ writerOut = [i \in Invocations |-> << >>]
    /\ result = [i \in Invocations |-> << >>]
    /\ raised = [i \in Invocations |-> << >>]
    /\ searchCalls = [i \in Invocations |-> 0]
    /\ writerCalls = [i \in Invocations |-> 0]

\* chain.py:29, chain.invoke(input): the bound chain starts its sequence.
Invoke(i, inp) ==
    /\ pc[i] = "IDLE"
    /\ input' = [input EXCEPT ![i] = inp]
    /\ IF chain_accepts(inp)
       THEN /\ pc' = [pc EXCEPT ![i] = "START"]
            /\ UNCHANGED raised
       ELSE /\ pc' = [pc EXCEPT ![i] = "ERROR"]
            /\ raised' = [raised EXCEPT ![i] = Append(@, "validation")]
    /\ UNCHANGED <<sinput, searchVars, allFailed, searchOut, ctx,
                   writerVars, searchCalls>>

\* The search stage returns `out`: the assign step merges it into the input.
SearchReturns(i, out) ==
    /\ searchOut' = [searchOut EXCEPT ![i] = Append(@, out)]
    /\ ctx' = [ctx EXCEPT ![i] = Assign(input[i], out)]
    /\ pc' = [pc EXCEPT ![i] = OnSearchReturn]
    /\ UNCHANGED raised

\* The search stage raises: the exception leaves the assign step.
SearchRaises(i) ==
    /\ raised' = [raised EXCEPT ![i] = Append(@, "search")]
    /\ pc' = [pc EXCEPT ![i] = OnSearchRaise]
    /\ UNCHANGED <<searchOut, ctx>>

\* The search stage is over: its locals are gone.
SearchLocalsDropped(i) ==
    /\ nq' = [nq EXCEPT ![i] = 0]
    /\ k' = [k EXCEPT ![i] = 0]
    /\ hits' = [hits EXCEPT ![i] = {}]

\* The assign step invokes search_chain with the input dict, whatever the
\* dict holds, and waits for the stage to return or raise.
SearchStart(i) ==
    /\ pc[i] = "START"
    /\ searchCalls' = [searchCalls EXCEPT ![i] = @ + 1]
    /\ sinput' = [sinput EXCEPT ![i] = SearchInput(input[i])]
    /\ pc' = [pc EXCEPT ![i] = "SEARCHING"]
    /\ UNCHANGED <<input, searchVars, allFailed, searchOut, ctx,
                   raised, writerVars>>

\* The running search stage finds no question in its input: it raises.
SearchRejects(i) ==
    /\ pc[i] = "SEARCHING"
    /\ SearchRaisesOnEntry(sinput[i])
    /\ SearchRaises(i)
    /\ UNCHANGED <<input, sinput, searchVars, allFailed, writerVars,
                   searchCalls>>

\* The running search stage finds the empty question: it returns the empty
\* summary without an outbound call.
SearchSkips(i) ==
    /\ pc[i] = "SEARCHING"
    /\ SearchYieldsNoResults(sinput[i])
    /\ SearchReturns(i, EmptyText)
    /\ UNCHANGED <<input, sinput, searchVars, allFailed, writerVars,
                   searchCalls>>

\* The generation provider answers the query-formation prompt with n queries.
FormQueries(i, n) ==
    /\ pc[i] = "SEARCHING"
    /\ SearchFormsQueries(sinput[i])
    /\ nq' = [nq EXCEPT ![i] = n]
    /\ k' = [k EXCEPT ![i] = 1]
    /\ pc' = [pc EXCEPT ![i] = "FETCHING"]
    /\ UNCHANGED <<input, sinput, hits, allFailed, searchOut, ctx,
                   writerVars, raised, searchCalls>>

\* The query-formation generation call fails: the stage raises.
FormQueriesFail(i) ==
    /\ pc[i] = "SEARCHING"
    /\ SearchFormsQueries(sinput[i])
    /\ SearchRaises(i)
    /\ UNCHANGED <<input, sinput, searchVars, allFailed, writerVars,
                   searchCalls>>

\* The fetch of sub-query k[i] ends, successfully or not; after the last one
\* the stage summarises, or yields the empty summary when nothing was fetched.
FetchEnds(i, ok) ==
    /\ pc[i] = "FETCHING"
    /\ LET h == IF ok THEN hits[i] \cup {k[i]} ELSE hits[i]
       IN  IF k[i] < nq[i]
           THEN /\ hits' = [hits EXCEPT ![i] = h]
                /\ k' = [k EXCEPT ![i] = @ + 1]
                /\ UNCHANGED <<nq, pc, allFailed, searchOut, ctx, raised>>
           ELSE IF h = {}
                THEN /\ allFailed' = [allFailed EXCEPT ![i] = TRUE]
                     /\ SearchReturns(i, Summary(sinput[i].question, h))
                     /\ SearchLocalsDropped(i)
                ELSE /\ hits' = [hits EXCEPT ![i] = h]
                     /\ pc' = [pc EXCEPT ![i] = "SUMMARIZING"]
                     /\ UNCHANGED <<nq, k, allFailed, searchOut, ctx, raised>>
    /\ UNCHANGED <<input, sinput, writerVars, searchCalls>>

\* The search provider returns text fragments for the sub-query.
FetchOk(i) == FetchEnds(i, TRUE)

\* The search provider fails for the sub-query: its contribution is dropped.
FetchFail(i) == FetchEnds(i, FALSE)

\* The generation provider condenses the fetched fragments.
SummarizeOk(i) ==
    /\ pc[i] = "SUMMARIZING"
    /\ SearchReturns(i, Summary(sinput[i].question, hits[i]))
    /\ SearchLocalsDropped(i)
    /\ UNCHANGED <<input, sinput, allFailed, writerVars, searchCalls>>

\* The summarising generation call fails: the stage raises.
SummarizeFail(i) ==
    /\ pc[i] = "SUMMARIZING"
    /\ SearchRaises(i)
    /\ SearchLocalsDropped(i)
    /\ UNCHANGED <<input, sinput, allFailed, writerVars, searchCalls>>

\* The writer raises: the exception leaves the sequence.
WriterRaises(i) ==
    /\ raised' = [raised EXCEPT ![i] = Append(@, "writer")]
    /\ pc' = [pc EXCEPT ![i] = OnWriterRaise]
    /\ UNCHANGED result

\* The sequence invokes writer_chain with the assign step's output, whatever
\* it holds, and waits for the stage to return or raise.
WriterStart(i) ==
    /\ pc[i] = "RESEARCHED"
    /\ writerCalls' = [writerCalls EXCEPT ![i] = @ + 1]
    /\ winput' = [winput EXCEPT ![i] = WriterInput(ctx[i])]
    /\ pc' = [pc EXCEPT ![i] = "WRITING"]
    /\ UNCHANGED <<input, sinput, searchVars, allFailed, searchOut, ctx,
                   writerOut, result, raised, searchCalls>>

\* The generation provider answers the writer's prompt; invoke() returns it.
WriterOk(i, text) ==
    /\ pc[i] = "WRITING"
    /\ writerOut' = [writerOut EXCEPT ![i] = Append(@, text)]
    /\ result' = [result EXCEPT ![i] = Append(@, ChainResult(text))]
    /\ pc' = [pc EXCEPT ![i] = OnWriterReturn]
    /\ UNCHANGED <<input, sinput, searchVars, allFailed, searchOut, ctx,
                   winput, raised, searchCalls, writerCalls>>

\* The writer stage ends without an answer: its generation call failed, or
\* its prompt could not be built.
WriterFail(i) ==
    /\ pc[i] = "WRITING"
    /\ WriterRaises(i)
    /\ UNCHANGED <<input, sinput, searchVars, allFailed, searchOut, ctx,
                   winput, writerOut, searchCalls, writerCalls>>

Next ==
    \E i \in Invocations :
        \/ \E inp \in Inputs : Invoke(i, inp)
        \/ SearchStart(i)
        \/ SearchRejects(i)
        \/ SearchSkips(i)
        \/ \E n \in 1..MaxSubQueries : FormQueries(i, n)
        \/ FormQueriesFail(i)
        \/ FetchOk(i)
        \/ FetchFail(i)
        \/ SummarizeOk(i)
        \/ SummarizeFail(i)
        \/ WriterStart(i)
        \/ /\ pc[i] = "WRITING"
           /\ \E text \in WriterTexts(winput[i]) : WriterOk(i, text)
        \/ WriterFail(i)

Spec == Init /\ [][Next]_vars

\* The steps the chain and the stages take on their own happen eventually;
\* the response of a provider to an outstanding call is not guaranteed, and
\* nothing cuts an outstanding call off.
Fairness ==
    \A i \in Invocations :
        /\ WF_vars(SearchStart(i))
        /\ WF_vars(SearchRejects(i))
        /\ WF_vars(SearchSkips(i))
        /\ WF_vars(WriterStart(i))

FairSpec == Spec /\ Fairness

TypeOK ==
    /\ pc \in [Invocations -> {"IDLE", "START", "SEARCHING", "FETCHING",
                               "SUMMARIZING", "RESEARCHED", "WRITING",
                               "DONE", "ERROR"}]
    /\ \A i \in Invocations :
        /\ nq[i] \in 0..MaxSubQueries
        /\ hits[i] \subseteq 1..MaxSubQueries
        /\ searchCalls[i] \in 0..1
        /\ writerCalls[i] \in 0..1

(***************************************************************************)
(* Properties.                                                             *)
(***************************************************************************)

\* The orchestrator state of the specification (4.3) an invocation is in.
Phase(i) ==
    CASE pc[i] \in {"START", "SEARCHING", "FETCHING", "SUMMARIZING"} ->
           "START"
      [] pc[i] \in {"RESEARCHED", "WRITING"} -> "RESEARCHED"
      [] OTHER -> pc[i]

Ended(i) == pc[i] \in {"DONE", "ERROR"}

HasQuestion(c) == "question" \in DOMAIN c

NonEmptyQuestion(c) == HasQuestion(c) /\ c.question # EmptyText

\* The summaries the search stage yields for a question alone.
SummariesOf(q) == {Summary(q, h) : h \in SUBSET (1..MaxSubQueries)}

\* C1: the search stage has completed before the writer is invoked, the
\* writer is only invoked with a context holding both question and
\* research_summary, and an invocation moves START -> RESEARCHED -> DONE:
\* RESEARCHED is entered only from START, DONE only from RESEARCHED, and the
\* only other exit of START and RESEARCHED is the error that ends the
\* invocation.
C1_StagesInOrder ==
    [][\A i \in Invocations :
        /\ Phase(i) = "START" => Phase(i)' \in {"START", "RESEARCHED", "ERROR"}
        /\ Phase(i) = "RESEARCHED" =>
               Phase(i)' \in {"RESEARCHED", "DONE", "ERROR"}
        /\ Phase(i) \in {"DONE", "ERROR"} => Phase(i)' = Phase(i)
        /\ Phase(i)' = "DONE" => Phase(i) \in {"RESEARCHED", "DONE"}
        /\ (Phase(i)' = "RESEARCHED" /\ Phase(i) # "RESEARCHED") =>
               Len(searchOut'[i]) = 1
        /\ writerCalls'[i] # writerCalls[i] =>
               /\ Len(searchOut[i]) = 1
               /\ {"question", "research_summary"} \subseteq DOMAIN winput'[i]
               /\ winput'[i] = ctx[i]]_vars

C1_Witness ==
    \E i \in Invocations :
        /\ pc[i] = "DONE"
        /\ writerCalls[i] = 1
        /\ {"question", "research_summary"} \subseteq DOMAIN winput[i]

\* C2 as stated: the context handed to the writer holds every key of the
\* input with its original value, a research_summary of the caller included.
C2_NoKeyOverwritten ==
    \A i \in Invocations :
        writerCalls[i] > 0 =>
            /\ "research_summary" \in DOMAIN winput[i]
            /\ \A x \in DOMAIN input[i] :
                   x \in DOMAIN winput[i] /\ winput[i][x] = input[i][x]

\* C2 amended: the context handed to the writer holds every key of the input;
\* every key other than research_summary keeps its original value, and
\* research_summary holds the search stage's value, which replaces a
\* research_summary of the caller.
C2_MergeKeepsOtherKeys ==
    \A i \in Invocations :
        writerCalls[i] > 0 =>
            /\ DOMAIN winput[i] = DOMAIN input[i] \cup {"research_summary"}
            /\ \A x \in DOMAIN input[i] \ {"research_summary"} :
                   winput[i][x] = input[i][x]
            /\ winput[i].research_summary = searchOut[i][1]

C2_Witness ==
    \E i \in Invocations :
        /\ writerCalls[i] > 0
        /\ "research_summary" \in DOMAIN input[i]
        /\ winput[i].research_summary # input[i].research_summary

\* C3 as stated: an invocation with a missing or empty question starts
\* neither stage and ends in a validation error.
C3_InvalidInputRejected ==
    \A i \in Invocations :
        (pc[i] # "IDLE" /\ ~NonEmptyQuestion(input[i])) =>
            /\ searchCalls[i] = 0
            /\ writerCalls[i] = 0
            /\ Ended(i) => (pc[i] = "ERROR" /\ raised[i] = <<"validation">>)

C6_SingleErrorNoAnswer ==
    \A i \in Invocations :
        /\ Len(raised[i]) <= 1
        /\ raised[i] # << >> => (pc[i] = "ERROR" /\ result[i] = << >>)
        /\ pc[i] = "ERROR" => Len(raised[i]) = 1
        /\ raised[i] = <<"search">> => (writerCalls[i] = 0 /\ winput[i] = EmptyCtx)
        /\ raised[i] = <<"writer">> => (writerCalls[i] = 1 /\ writerOut[i] = << >>)

C6_Witness ==
    /\ raised["A"] = <<"search">>
    /\ raised["B"] = <<"writer">>
    /\ ctx["B"] # EmptyCtx

\* C7: under every interleaving the research_summary of an invocation's
\* context is the value its own search stage call returned, computed for its
\* own question, never the one returned for the other invocation's different
\* question; and a step in which one invocation fails changes nothing of the
\* other invocation.
C7_NoCrossContamination ==
    /\ [](\A i \in Invocations :
            Len(searchOut[i]) = 1 =>
                /\ ctx[i].research_summary = searchOut[i][1]
                /\ ctx[i].research_summary \in SummariesOf(input[i].question)
                /\ \A j \in Invocations \ {i} :
                       (/\ Len(searchOut[j]) = 1
                        /\ searchOut[j][1] # EmptyText
                        /\ input[j].question # input[i].question) =>
                           /\ ctx[i].research_summary # searchOut[j][1]
                           /\ writerCalls[i] > 0 =>
                                  winput[i].research_summary # searchOut[j][1])
    /\ [][\A i \in Invocations :
            raised'[i] # raised[i] =>
                \A j \in Invocations \ {i} :
                    /\ pc'[j] = pc[j]
                    /\ ctx'[j] = ctx[j]
                    /\ searchOut'[j] = searchOut[j]
                    /\ winput'[j] = winput[j]
                    /\ result'[j] = result[j]
                    /\ raised'[j] = raised[j]]_vars

C7_Witness ==
    /\ NonEmptyQuestion(input["A"])
    /\ NonEmptyQuestion(input["B"])
    /\ input["A"].question # input["B"].question
    /\ Len(searchOut["A"]) = 1
    /\ searchOut["A"][1] # EmptyText
    /\ pc["B"] = "DONE"
    /\ winput["B"].research_summary # EmptyText
    /\ raised["A"] # << >>

\* C8 as stated: two invocations with the same question hand the search
\* stage the same input.
C8_SameSearchInput ==
    (/\ searchCalls["A"] = 1
     /\ searchCalls["B"] = 1
     /\ HasQuestion(input["A"])
     /\ HasQuestion(input["B"])
     /\ input["A"].question = input["B"].question) =>
        sinput["A"] = sinput["B"]

\* C8 amended: the search stage is handed the whole input context, so two
\* invocations with the same question hand it inputs that agree on question
\* and differ wherever the input contexts differ; each research_summary is
\* one the search stage yields for that question alone.
C8_SearchInputIsWholeContext ==
    \A i \in Invocations :
        searchCalls[i] = 1 =>
            /\ sinput[i] = input[i]
            /\ \A j \in Invocations :
                   (/\ searchCalls[j] = 1
                    /\ HasQuestion(input[i])
                    /\ HasQuestion(input[j])
                    /\ input[i].question = input[j].question) =>
                       /\ sinput[i].question = sinput[j].question
                       /\ \A o1 \in {searchOut[i][n] : n \in DOMAIN searchOut[i]} :
                              o1 \in SummariesOf(input[j].question)

C8_Witness ==
    /\ NonEmptyQuestion(input["A"])
    /\ HasQuestion(input["B"])
    /\ input["A"].question = input["B"].question
    /\ input["A"] # input["B"]
    /\ Len(searchOut["A"]) = 1
    /\ Len(searchOut["B"]) = 1
    /\ searchOut["A"] = searchOut["B"]
    /\ searchOut["A"][1] # EmptyText

\* C9: the search stage is invoked exactly once and the writer at most once
\* per invocation, the research_summary of the context is exactly the value
\* the search stage returned, and the value returned to the caller is exactly
\* the value the writer stage returned.
C9_NoRetryNoAlteration ==
    \A i \in Invocations :
        /\ searchCalls[i] <= 1
        /\ writerCalls[i] <= 1
        /\ pc[i] \notin {"IDLE", "START"} => searchCalls[i] = 1
        /\ Len(searchOut[i]) <= 1
        /\ Len(writerOut[i]) <= writerCalls[i]
        /\ ctx[i] # EmptyCtx =>
               (Len(searchOut[i]) = 1 /\ ctx[i].research_summary = searchOut[i][1])
        /\ result[i] = writerOut[i]
        /\ pc[i] = "DONE" => Len(result[i]) = 1

C9_Witness ==
    \E i \in Invocations :
        /\ pc[i] = "DONE"
        /\ searchCalls[i] = 1
        /\ writerCalls[i] = 1
        /\ result[i] = writerOut[i]
        /\ ctx[i].research_summary # EmptyText
        /\ raised["A"] = << >>
        /\ raised["B"] = << >>

\* C10: every invocation eventually ends in DONE or in an error, whether or
\* not its outbound calls respond; none stays in START or RESEARCHED.
C10_EveryInvocationEnds ==
    \A i \in Invocations : (pc[i] # "IDLE") ~> Ended(i)

====
